---------------------------- MODULE Spec2Model ----------------------------
(***************************************************************************)
(* A model of the semantic-image-search backend:                           *)
(*   - QueryTranslator.translate and the lazy singleton translate_query    *)
(*     (backend/query_translator.py), run by concurrent request threads;   *)
(*   - IndexService.index_folder (backend/ingestion.py), walking a         *)
(*     directory tree and upserting one batch per directory.               *)
(*   - IndexService.index_image and clear_collection (the same file);      *)
(*   - search_text_endpoint and the search of search_image_endpoint        *)
(*     (backend/main.py), over ImageSearchService as section 4.3 of the    *)
(*     specification describes it.                                         *)
(*   - search_image_endpoint from the receipt of the upload, served by     *)
(*     concurrent threads that stage their uploads in one directory.       *)
(* Python strings are TLA+ strings; a Python value is a record             *)
(* [type, value] so that isinstance() can be modelled.                     *)
(***************************************************************************)
EXTENDS Integers, Sequences, FiniteSets, TLC

(***************************************************************************)
(* Bounds of the model.                                                    *)
(***************************************************************************)
\* Number of translate_query calls made in one behaviour.
MaxCalls == 2
\* Number of request threads that can be inside translate_query at once.
MaxThreads == 2

(***************************************************************************)
(* Python string built-ins, computed character by character.               *)
(***************************************************************************)
Min(a, b) == IF a < b THEN a ELSE b

WHITESPACE == {" ", "\t", "\n", "\r", "\f"}

UPPERCASE == "ABCDEFGHIJKLMNOPQRSTUVWXYZ"

LOWERCASE == "abcdefghijklmnopqrstuvwxyz"

\* The character at position i of s, as a one-character string.
CharAt(s, i) == SubSeq(s, i, i)

\* str.lower() on one character.
UpperChars == {CharAt(UPPERCASE, i) : i \in 1..Len(UPPERCASE)}

LowerChar(c) ==
    IF c \in UpperChars
    THEN CharAt(LOWERCASE, CHOOSE i \in 1..Len(UPPERCASE) : CharAt(UPPERCASE, i) = c)
    ELSE c

\* str.lower(): every character mapped, the halves of the string in turn.
RECURSIVE Lower(_)
Lower(s) ==
    IF Len(s) <= 1 THEN LowerChar(s)
    ELSE Lower(SubSeq(s, 1, Len(s) \div 2))
            \o Lower(SubSeq(s, Len(s) \div 2 + 1, Len(s)))

RECURSIVE LStrip(_)
LStrip(s) ==
    IF s = "" THEN s
    ELSE IF Head(s) \in WHITESPACE THEN LStrip(Tail(s)) ELSE s

RECURSIVE RStrip(_)
RStrip(s) ==
    IF s = "" THEN s
    ELSE IF CharAt(s, Len(s)) \in WHITESPACE
         THEN RStrip(SubSeq(s, 1, Len(s) - 1))
         ELSE s

\* str.strip()
Strip(s) == RStrip(LStrip(s))

\* pattern in s
Contains(s, pattern) ==
    \E i \in 1..(Len(s) - Len(pattern) + 1) :
        SubSeq(s, i, i + Len(pattern) - 1) = pattern

\* s.endswith(suffix)
EndsWith(s, suffix) ==
    /\ Len(s) >= Len(suffix)
    /\ SubSeq(s, Len(s) - Len(suffix) + 1, Len(s)) = suffix

\* s.startswith(prefix)
StartsWith(s, prefix) ==
    /\ Len(s) >= Len(prefix)
    /\ SubSeq(s, 1, Len(prefix)) = prefix

\* c * n
RECURSIVE Repeat(_, _)
Repeat(c, n) ==
    IF n = 0 THEN ""
    ELSE IF n % 2 = 1 THEN c \o Repeat(c, n - 1)
    ELSE Repeat(c \o c, n \div 2)

(***************************************************************************)
(* QueryTranslator: constants of the class.                                *)
(***************************************************************************)
MAX_QUERY_LENGTH == 200

CHAT_PATTERNS ==
    {"show me", "please", "give me", "can you", "i want", "find me", "could you"}

\* prompt_template.format(input_query = q): the fixed instruction text around
\* the query (the guideline lines of the template are abridged).
PROMPT_HEAD ==
    "You are an expert at rewriting queries for the CLIP image-text model.\n\nUser Query: "

PROMPT_TAIL == "\n\nRespond with only the rewritten caption."

FormatPrompt(q) == PROMPT_HEAD \o q \o PROMPT_TAIL

\* isinstance(user_query, str)
IsStr(v) == v.type = "str"

\* Faulty variant of InvalidQuery: the emptiness test without strip().
InvalidQueryNoStrip(v) == ~IsStr(v) \/ v.value = ""

\* not isinstance(user_query, str) or not user_query.strip()
InvalidQuery(v) == ~IsStr(v) \/ Strip(v.value) = ""

\* normalized_query[:MAX_QUERY_LENGTH] when it is longer than the limit
Truncate(s) ==
    IF Len(s) > MAX_QUERY_LENGTH THEN SubSeq(s, 1, MAX_QUERY_LENGTH) ELSE s

\* Faulty variant of NormalizeQuery: the length control applied to the raw
\* query, before strip().
NormalizeQueryCutFirst(s) == Lower(Strip(Truncate(s)))

\* user_query.strip().lower(), then the length control
NormalizeQuery(s) == Truncate(Lower(Strip(s)))

\* any(pattern in normalized_query for pattern in CHAT_PATTERNS)
\* Faulty variant of IsConversational: every query is sent to the provider.
IsConversationalAlways(q) == TRUE

IsConversational(q) == \E pattern \in CHAT_PATTERNS : Contains(q, pattern)

(***************************************************************************)
(* The inputs: the raw queries a caller passes, and what the Text          *)
(* Completion Provider may answer.                                         *)
(***************************************************************************)
Str(s) == [type |-> "str", value |-> s]

\* A conversational query longer than the limit, and one that differs from
\* it only after character 200 (and in case and surrounding blanks).
LongChatA == "show me " \o Repeat("x", 192) \o "aaa"

LongChatB == "  Show Me " \o Repeat("X", 192) \o "bbb "

\* A query longer than the limit whose only trigger substring straddles the
\* limit, so that what is left of it is caption-style.
LongStraddle == Repeat("x", 196) \o "please"

\* The raw queries of concurrent requests: an invalid one, a caption-style
\* one, and two conversational ones with the same normalized form.
RawQueries ==
    { Str(" \t "), Str(" Red Sports CAR\n"),
      Str("show me a red car"), Str("  Show Me a red car ") }

\* The raw queries of requests made one after the other: the above, the
\* other invalid values, the queries longer than the limit, and the query
\* test.py times.
AllRawQueries ==
    RawQueries \cup
    { Str(""), [type |-> "NoneType", value |-> ""],
      Str(LongChatA), Str(LongChatB), Str(LongStraddle),
      Str("red sports car") }

\* A conversational query of 203 characters whose 200th is a space.
LongChatC == "show me " \o Repeat("y", 191) \o " zzz"

\* The raw queries of concurrent requests that fill the cache: a
\* caption-style one, a conversational one, and one longer than the limit.
CacheQueries ==
    { Str(" Red Sports CAR\n"), Str("  Show Me a red car "), Str(LongChatC) }

\* The .content of the message self.llm.invoke(prompt) returns.
LLM_CONTENTS == {" a red car\n", "red car"}

(***************************************************************************)
(* State.                                                                  *)
(***************************************************************************)
VARIABLES
    \* the module global of query_translator.py: 0 is None, else the index in
    \* translators of the QueryTranslator it refers to
    _translator_instance,
    \* every QueryTranslator constructed so far: its _query_cache, a function
    \* from normalized queries to captions
    translators,
    \* every translate_query call made so far, in the order the calls
    \* started: the frame of the call (its locals, where it stands, how it
    \* ended) and what it did (provider calls, cache writes)
    calls,
    \* the points of the Qdrant collection, in the order they were upserted:
    \* [id, vector, payload]
    points,
    \* the calls made to embed_image_paths, in order: [run, paths, ok]
    embed_calls,
    \* the calls made to client.upsert, in order: [run, points, ok]
    upsert_calls,
    \* the number of uuid4() values drawn so far
    uuids,
    \* every index_folder run made so far, in order: the frame of the run
    runs,
    \* every index_image call made so far, in order: the frame of the call
    image_calls,
    \* every clear_collection call made so far, in order: the frame of the call
    clears,
    \* every GET /search-text request received so far, in order: the frame
    \* of search_text_endpoint, the collaborator calls made for the request
    \* and the response sent
    requests,
    \* the files of Config.QUERY_IMAGE_ROOT: a function from file names to
    \* contents, a content being the sequence of the blocks of the file
    query_images,
    \* every POST /search-image request received so far, in order: the frame
    \* of search_image_endpoint in the thread that serves the request
    uploads

tvars == <<_translator_instance, translators, calls>>

ivars == <<points, embed_calls, upsert_calls, uuids, runs>>

svars == <<image_calls, clears, requests>>

uvars == <<query_images, uploads>>

vars == <<_translator_instance, translators, calls,
          points, embed_calls, upsert_calls, uuids, runs,
          image_calls, clears, requests, query_images, uploads>>

None == 0

EmptyCache == [k \in {} |-> ""]

\* The frame of a call that has just been entered.
NewFrame(q) ==
    [ user_query       |-> q,
      pc               |-> "enter",
      self             |-> None,
      normalized_query |-> "",
      final_caption    |-> "",
      outcome          |-> "running",
      ret              |-> "",
      \* what the call did: the prompt it sent to the provider, how many
      \* provider calls it made and how the provider answered ("ok",
      \* "error"), whether it returned from the cache, whether it changed a
      \* cache, as which store of the behaviour it executed line 128 (0:
      \* not at all), and the calls that had ended when it started
      prompt           |-> "",
      llm              |-> 0,
      answer           |-> "none",
      hit              |-> FALSE,
      wrote            |-> FALSE,
      nth_write        |-> 0,
      prior            |-> {c \in 1..Len(calls) : calls[c].outcome # "running"} ]

\* The number of line 128 stores executed so far.
Stores == Cardinality({c \in 1..Len(calls) : calls[c].nth_write > 0})

Running == {c \in 1..Len(calls) : calls[c].outcome = "running"}

\* Some _query_cache that existed before the step differs after it.
CacheWritten ==
    \E i \in 1..Len(translators) : translators'[i] # translators[i]

\* The frame of call c becomes f; the call is charged with the change of a
\* cache, if the step made one.
SetFrame(c, f) ==
    calls' = [calls EXCEPT ![c] = [f EXCEPT !.wrote = @ \/ CacheWritten]]

Init ==
    /\ _translator_instance = None
    /\ translators = << >>
    /\ calls = << >>
    /\ points = << >>
    /\ embed_calls = << >>
    /\ upsert_calls = << >>
    /\ uuids = 0
    /\ runs = << >>
    /\ image_calls = << >>
    /\ clears = << >>
    /\ requests = << >>
    /\ query_images = [name \in {} |-> << >>]
    /\ uploads = << >>


(***************************************************************************)
(* translate_query and QueryTranslator.translate, one action per step a    *)
(* request thread takes between two points where another thread can run.   *)
(***************************************************************************)
\* A request thread enters translate_query(q) and tests the global:
\* if _translator_instance is None:
Start(q) ==
    /\ Len(calls) < MaxCalls
    /\ UNCHANGED <<ivars, svars, uvars>>
    /\ Cardinality(Running) < MaxThreads
    /\ calls' = Append(calls, [NewFrame(q) EXCEPT
            !.pc = IF _translator_instance = None THEN "tq_new" ELSE "call"])
    /\ UNCHANGED <<_translator_instance, translators>>

\* _translator_instance = QueryTranslator(): __init__ builds the client and
\* an empty _query_cache, then the global is assigned.
TqNew(c) ==
    /\ calls[c].pc = "tq_new"
    /\ UNCHANGED <<ivars, svars, uvars>>
    /\ translators' = Append(translators, EmptyCache)
    /\ _translator_instance' = Len(translators) + 1
    /\ SetFrame(c, [calls[c] EXCEPT !.pc = "call"])

\* QueryTranslator(): __init__ fails (the client cannot be built) and raises
\* SemanticImageSearchException out of translate_query; the global stays.
TqNewFails(c) ==
    /\ calls[c].pc = "tq_new"
    /\ UNCHANGED <<ivars, svars, uvars>>
    /\ UNCHANGED <<_translator_instance, translators>>
    /\ SetFrame(c, [calls[c] EXCEPT
            !.pc = "done", !.outcome = "SemanticImageSearchException"])

\* return _translator_instance.translate(user_query): the global is read
\* again, then translate validates and normalizes its argument.
TrBegin(c) ==
    /\ calls[c].pc = "call"
    /\ UNCHANGED <<ivars, svars, uvars>>
    /\ UNCHANGED <<_translator_instance, translators>>
    /\ LET f == [calls[c] EXCEPT !.self = _translator_instance]
       IN  IF InvalidQuery(f.user_query)
           THEN SetFrame(c, [f EXCEPT !.pc = "done", !.outcome = "ValueError"])
           ELSE SetFrame(c, [f EXCEPT
                    !.pc = "cache_check",
                    !.normalized_query = NormalizeQuery(f.user_query.value)])

\* Faulty variant of CacheCheck: the caption-style path stores the query it
\* returns in the cache.
CacheCheckCaching(c) ==
    /\ calls[c].pc = "cache_check"
    /\ UNCHANGED <<ivars, svars, uvars>>
    /\ UNCHANGED _translator_instance
    /\ LET f == calls[c]
           cache == translators[f.self]
       IN  IF f.normalized_query \in DOMAIN cache
           THEN /\ UNCHANGED translators
                /\ SetFrame(c, [f EXCEPT
                        !.pc = "done", !.outcome = "return", !.hit = TRUE,
                        !.ret = cache[f.normalized_query]])
           ELSE IF ~IsConversational(f.normalized_query)
           THEN /\ translators' = [translators EXCEPT ![f.self] =
                        [k \in DOMAIN @ \cup {f.normalized_query} |->
                            IF k = f.normalized_query THEN k ELSE @[k]]]
                /\ SetFrame(c, [f EXCEPT
                        !.pc = "done", !.outcome = "return",
                        !.ret = f.normalized_query])
           ELSE /\ UNCHANGED translators
                /\ SetFrame(c, [f EXCEPT !.pc = "llm"])

\* The early cache check, then the conversational detection.
CacheCheck(c) ==
    /\ calls[c].pc = "cache_check"
    /\ UNCHANGED <<ivars, svars, uvars>>
    /\ UNCHANGED <<_translator_instance, translators>>
    /\ LET f == calls[c]
           cache == translators[f.self]
       IN  IF f.normalized_query \in DOMAIN cache
           THEN SetFrame(c, [f EXCEPT
                    !.pc = "done", !.outcome = "return", !.hit = TRUE,
                    !.ret = cache[f.normalized_query]])
           ELSE IF ~IsConversational(f.normalized_query)
           THEN SetFrame(c, [f EXCEPT
                    !.pc = "done", !.outcome = "return",
                    !.ret = f.normalized_query])
           ELSE SetFrame(c, [f EXCEPT !.pc = "llm"])

\* final_caption = self.llm.invoke(prompt).content.strip()
LlmInvoke(c) ==
    /\ calls[c].pc = "llm"
    /\ UNCHANGED <<ivars, svars, uvars>>
    /\ UNCHANGED <<_translator_instance, translators>>
    /\ \E content \in LLM_CONTENTS :
        SetFrame(c, [calls[c] EXCEPT
            !.pc = "store",
            !.prompt = FormatPrompt(calls[c].normalized_query),
            !.llm = @ + 1,
            !.answer = "ok",
            !.final_caption = Strip(content)])

\* Faulty variant of LlmFails: the except clause leaves the normalized query
\* in the cache as a fallback caption before it raises.
LlmFailsCachesQuery(c) ==
    /\ calls[c].pc = "llm"
    /\ UNCHANGED <<ivars, svars, uvars>>
    /\ UNCHANGED _translator_instance
    /\ translators' = [translators EXCEPT ![calls[c].self] =
            [k \in DOMAIN @ \cup {calls[c].normalized_query} |->
                IF k = calls[c].normalized_query THEN k ELSE @[k]]]
    /\ SetFrame(c, [calls[c] EXCEPT
            !.pc = "done",
            !.prompt = FormatPrompt(calls[c].normalized_query),
            !.llm = @ + 1,
            !.answer = "error",
            !.outcome = "SemanticImageSearchException"])

\* self.llm.invoke(prompt) raises (provider error or the 20 s timeout): the
\* except clause raises SemanticImageSearchException.
LlmFails(c) ==
    /\ calls[c].pc = "llm"
    /\ UNCHANGED <<ivars, svars, uvars>>
    /\ UNCHANGED <<_translator_instance, translators>>
    /\ SetFrame(c, [calls[c] EXCEPT
            !.pc = "done",
            !.prompt = FormatPrompt(calls[c].normalized_query),
            !.llm = @ + 1,
            !.answer = "error",
            !.outcome = "SemanticImageSearchException"])

\* Faulty variant of Store: the caption is returned and not cached.
StoreSkipsCache(c) ==
    /\ calls[c].pc = "store"
    /\ UNCHANGED <<ivars, svars, uvars>>
    /\ UNCHANGED <<_translator_instance, translators>>
    /\ SetFrame(c, [calls[c] EXCEPT
            !.pc = "done", !.outcome = "return", !.nth_write = Stores + 1,
            !.ret = calls[c].final_caption])

\* Faulty variant of Store: an entry that exists is kept (setdefault), the
\* caption of this call is returned.
StoreKeepsFirst(c) ==
    /\ calls[c].pc = "store"
    /\ UNCHANGED <<ivars, svars, uvars>>
    /\ UNCHANGED _translator_instance
    /\ LET f == calls[c]
       IN  /\ translators' = [translators EXCEPT ![f.self] =
                    [k \in DOMAIN @ \cup {f.normalized_query} |->
                        IF k \in DOMAIN @ THEN @[k] ELSE f.final_caption]]
           /\ SetFrame(c, [f EXCEPT
                    !.pc = "done", !.outcome = "return",
                    !.nth_write = Stores + 1, !.ret = f.final_caption])

\* Faulty variant of Store: the caption is cached under the query as it was
\* passed.
StoreUnderRawQuery(c) ==
    /\ calls[c].pc = "store"
    /\ UNCHANGED <<ivars, svars, uvars>>
    /\ UNCHANGED _translator_instance
    /\ LET f == calls[c]
       IN  /\ translators' = [translators EXCEPT ![f.self] =
                    [k \in DOMAIN @ \cup {f.user_query.value} |->
                        IF k = f.user_query.value THEN f.final_caption ELSE @[k]]]
           /\ SetFrame(c, [f EXCEPT
                    !.pc = "done", !.outcome = "return",
                    !.nth_write = Stores + 1, !.ret = f.final_caption])

\* self._query_cache[normalized_query] = final_caption; return final_caption
Store(c) ==
    /\ calls[c].pc = "store"
    /\ UNCHANGED <<ivars, svars, uvars>>
    /\ UNCHANGED _translator_instance
    /\ LET f == calls[c]
       IN  /\ translators' = [translators EXCEPT ![f.self] =
                    [k \in DOMAIN @ \cup {f.normalized_query} |->
                        IF k = f.normalized_query THEN f.final_caption ELSE @[k]]]
           /\ SetFrame(c, [f EXCEPT
                    !.pc = "done", !.outcome = "return",
                    !.nth_write = Stores + 1, !.ret = f.final_caption])

Next ==
    \/ \E q \in RawQueries : Start(q)
    \/ \E c \in 1..Len(calls) : TqNew(c)
    \/ \E c \in 1..Len(calls) : TqNewFails(c)
    \/ \E c \in 1..Len(calls) : TrBegin(c)
    \/ \E c \in 1..Len(calls) : CacheCheck(c)
    \/ \E c \in 1..Len(calls) : LlmInvoke(c)
    \/ \E c \in 1..Len(calls) : LlmFails(c)
    \/ \E c \in 1..Len(calls) : Store(c)

Spec == Init /\ [][Next]_vars

\* The requests made one after the other, over every raw query.
NextSeq ==
    \/ \E q \in AllRawQueries : Running = {} /\ Start(q)
    \/ \E c \in 1..Len(calls) : TqNew(c)
    \/ \E c \in 1..Len(calls) : TqNewFails(c)
    \/ \E c \in 1..Len(calls) : TrBegin(c)
    \/ \E c \in 1..Len(calls) : CacheCheck(c)
    \/ \E c \in 1..Len(calls) : LlmInvoke(c)
    \/ \E c \in 1..Len(calls) : LlmFails(c)
    \/ \E c \in 1..Len(calls) : Store(c)

SpecSeq == Init /\ [][NextSeq]_vars

\* Concurrent requests over the queries that fill the cache.
NextCache ==
    \/ \E q \in CacheQueries : Start(q)
    \/ \E c \in 1..Len(calls) : TqNew(c)
    \/ \E c \in 1..Len(calls) : TqNewFails(c)
    \/ \E c \in 1..Len(calls) : TrBegin(c)
    \/ \E c \in 1..Len(calls) : CacheCheck(c)
    \/ \E c \in 1..Len(calls) : LlmInvoke(c)
    \/ \E c \in 1..Len(calls) : LlmFails(c)
    \/ \E c \in 1..Len(calls) : Store(c)

SpecCache == Init /\ [][NextCache]_vars


(***************************************************************************)
(* IndexService.index_folder: the file system it walks, os.walk and the    *)
(* os.path functions it uses.                                              *)
(***************************************************************************)
\* Number of index_folder runs made in one behaviour.
MaxRuns == 2

\* The directories of the file system, by path, with their entries in the
\* order os.scandir lists them.
FileSystem ==
    [ d \in {"root", "root/cats", "root/cats/kittens", "root/dogs", "root/docs"} |->
        CASE d = "root" ->
                [dirs |-> <<"cats", "dogs", "docs">>, files |-> <<"top.JPG", "readme.md">>]
          [] d = "root/cats" ->
                [dirs |-> <<"kittens">>, files |-> <<"a.jpg", "notes.txt", "b.png">>]
          [] d = "root/cats/kittens" ->
                [dirs |-> << >>, files |-> <<"k.Jpeg", "k.jpg.bak">>]
          [] d = "root/dogs" ->
                [dirs |-> << >>, files |-> <<"c.webp", "d.gif">>]
          [] d = "root/docs" ->
                [dirs |-> << >>, files |-> <<"notes.txt", "jpg">>] ]

\* The root_folder arguments of index_folder: directories of the file
\* system, written with and without a trailing separator, and a path that
\* does not exist.
RootFolders == {"root", "root/", "root/cats", "root/docs", "nowhere"}

\* The position of the last "/" of p, 0 when it has none.
LastSlash(p) ==
    LET at == {i \in 1..Len(p) : CharAt(p, i) = "/"}
    IN  IF at = {} THEN 0 ELSE CHOOSE i \in at : \A j \in at : j <= i

\* os.path.basename(p)
Basename(p) == SubSeq(p, LastSlash(p) + 1, Len(p))

\* os.path.join(a, b)
Join(a, b) ==
    IF b # "" /\ Head(b) = "/" THEN b
    ELSE IF a = "" \/ CharAt(a, Len(a)) = "/" THEN a \o b
    ELSE a \o "/" \o b

\* The directory a path names to the operating system: trailing separators
\* do not count.
RECURSIVE Resolve(_)
Resolve(p) ==
    IF Len(p) > 1 /\ CharAt(p, Len(p)) = "/"
    THEN Resolve(SubSeq(p, 1, Len(p) - 1))
    ELSE p

\* os.walk(top), top-down: top as it was given with the names of its files,
\* then the walk of each subdirectory; a directory that cannot be listed
\* yields nothing.
RECURSIVE Walk(_)
RECURSIVE WalkEach(_, _)
Walk(top) ==
    IF Resolve(top) \notin DOMAIN FileSystem THEN << >>
    ELSE <<[dirpath |-> top, files |-> FileSystem[Resolve(top)].files]>>
            \o WalkEach(top, FileSystem[Resolve(top)].dirs)

WalkEach(top, dirs) ==
    IF dirs = << >> THEN << >>
    ELSE Walk(Join(top, Head(dirs))) \o WalkEach(top, Tail(dirs))

extensions == {".jpg", ".jpeg", ".png", ".webp"}

\* f.lower().endswith(extensions)
IsImageName(f) == \E e \in extensions : EndsWith(Lower(f), e)

\* The image_paths and payloads lists index_folder builds for one directory.
RECURSIVE Collect(_, _, _)
Collect(dirpath, category, files) ==
    IF files = << >> THEN << >>
    ELSE (IF ~IsImageName(Head(files)) THEN << >>
          ELSE LET img_path == Join(dirpath, Head(files))
               IN  <<[filename |-> Basename(img_path),
                      path     |-> img_path,
                      category |-> category]>>)
         \o Collect(dirpath, category, Tail(files))

\* embed_image_paths: the vector of the image at a path.
EmbedImage(path) == "clip:" \o path

\* The frame of an index_folder(root_folder) run that has just been entered.
NewRun(root_folder) ==
    [ root_folder |-> root_folder,
      pc          |-> "walk",
      \* what os.walk has yet to yield
      walk        |-> Walk(root_folder),
      dirpath     |-> "",
      payloads    |-> << >>,
      vectors     |-> << >>,
      outcome     |-> "running",
      \* the number of points in the collection when the run started
      before      |-> Len(points) ]

\* The run in progress, 0 when there is none.
CurrentRun ==
    IF runs # << >> /\ runs[Len(runs)].outcome = "running" THEN Len(runs) ELSE 0

SetRun(f) == runs' = [runs EXCEPT ![CurrentRun] = f]

(***************************************************************************)
(* index_folder, one action per directory visit and per collaborator call. *)
(***************************************************************************)
\* index_folder(root_folder) is entered.
IxStart(root_folder) ==
    /\ Len(runs) < MaxRuns
    /\ CurrentRun = 0
    /\ runs' = Append(runs, NewRun(root_folder))
    /\ UNCHANGED <<points, embed_calls, upsert_calls, uuids>>
    /\ UNCHANGED <<tvars, svars, uvars>>

\* os.walk is exhausted: the for loop ends and index_folder returns.
IxReturn ==
    /\ CurrentRun # 0
    /\ runs[CurrentRun].pc = "walk"
    /\ runs[CurrentRun].walk = << >>
    /\ SetRun([runs[CurrentRun] EXCEPT !.pc = "done", !.outcome = "return"])
    /\ UNCHANGED <<points, embed_calls, upsert_calls, uuids>>
    /\ UNCHANGED <<tvars, svars, uvars>>

\* Faulty variant of IxVisit: `if not image_paths: continue` is missing, a
\* directory without qualifying files goes on to the embedding call.
IxVisitNoSkip ==
    /\ CurrentRun # 0
    /\ runs[CurrentRun].pc = "walk"
    /\ runs[CurrentRun].walk # << >>
    /\ LET f == runs[CurrentRun]
           dirpath == Head(f.walk).dirpath
           category == Basename(dirpath)
           payloads == Collect(dirpath, category, Head(f.walk).files)
       IN  SetRun([f EXCEPT
                !.walk = Tail(@),
                !.dirpath = dirpath,
                !.payloads = payloads,
                !.pc = "embed"])
    /\ UNCHANGED <<points, embed_calls, upsert_calls, uuids>>
    /\ UNCHANGED <<tvars, svars, uvars>>

\* One iteration of the for loop up to `if not image_paths: continue`: the
\* category is the base name of the walked path, the files are filtered.
IxVisit ==
    /\ CurrentRun # 0
    /\ runs[CurrentRun].pc = "walk"
    /\ runs[CurrentRun].walk # << >>
    /\ LET f == runs[CurrentRun]
           dirpath == Head(f.walk).dirpath
           category == Basename(dirpath)
           payloads == Collect(dirpath, category, Head(f.walk).files)
       IN  SetRun([f EXCEPT
                !.walk = Tail(@),
                !.dirpath = dirpath,
                !.payloads = payloads,
                !.pc = IF payloads = << >> THEN "walk" ELSE "embed"])
    /\ UNCHANGED <<points, embed_calls, upsert_calls, uuids>>
    /\ UNCHANGED <<tvars, svars, uvars>>

\* Faulty variant of IxEmbed: the images of the directory are embedded one
\* call per file.
IxEmbedPerFile ==
    /\ CurrentRun # 0
    /\ runs[CurrentRun].pc = "embed"
    /\ LET f == runs[CurrentRun]
           image_paths == [i \in 1..Len(f.payloads) |-> f.payloads[i].path]
       IN  /\ embed_calls' = embed_calls \o
                    [i \in 1..Len(image_paths) |->
                        [run |-> CurrentRun, paths |-> <<image_paths[i]>>, ok |-> TRUE]]
           /\ SetRun([f EXCEPT
                    !.vectors = [i \in 1..Len(image_paths) |-> EmbedImage(image_paths[i])],
                    !.pc = "upsert"])
    /\ UNCHANGED <<points, upsert_calls, uuids>>
    /\ UNCHANGED <<tvars, svars, uvars>>

\* vectors = embed_image_paths(image_paths)
IxEmbed ==
    /\ CurrentRun # 0
    /\ runs[CurrentRun].pc = "embed"
    /\ LET f == runs[CurrentRun]
           image_paths == [i \in 1..Len(f.payloads) |-> f.payloads[i].path]
       IN  /\ embed_calls' = Append(embed_calls,
                    [run |-> CurrentRun, paths |-> image_paths, ok |-> TRUE])
           /\ SetRun([f EXCEPT
                    !.vectors = [i \in 1..Len(image_paths) |-> EmbedImage(image_paths[i])],
                    !.pc = "upsert"])
    /\ UNCHANGED <<points, upsert_calls, uuids>>
    /\ UNCHANGED <<tvars, svars, uvars>>

\* embed_image_paths raises: the except clause of index_folder raises
\* SemanticImageSearchException.
IxEmbedFails ==
    /\ CurrentRun # 0
    /\ runs[CurrentRun].pc = "embed"
    /\ LET f == runs[CurrentRun]
           image_paths == [i \in 1..Len(f.payloads) |-> f.payloads[i].path]
       IN  /\ embed_calls' = Append(embed_calls,
                    [run |-> CurrentRun, paths |-> image_paths, ok |-> FALSE])
           /\ SetRun([f EXCEPT
                    !.pc = "done", !.outcome = "SemanticImageSearchException"])
    /\ UNCHANGED <<points, upsert_calls, uuids>>
    /\ UNCHANGED <<tvars, svars, uvars>>

\* client.upsert(points = batch) on a collection holding store: a point
\* whose id the collection holds replaces the point of that id, any other
\* point is added.
RECURSIVE Upsert(_, _)
Upsert(store, batch) ==
    IF batch = << >> THEN store
    ELSE LET b == Head(batch)
             at == {i \in 1..Len(store) : store[i].id = b.id}
         IN  Upsert(IF at = {} THEN Append(store, b)
                    ELSE [i \in 1..Len(store) |-> IF i \in at THEN b ELSE store[i]],
                    Tail(batch))

\* points = [PointStruct(id = str(uuid4()), ...) for vector, payload in zip(...)]
Batch(f) ==
    [i \in 1..Min(Len(f.vectors), Len(f.payloads)) |->
        [id |-> uuids + i, vector |-> f.vectors[i], payload |-> f.payloads[i]]]

\* self.client.upsert(points = points, wait = True) is acknowledged.
IxUpsert ==
    /\ CurrentRun # 0
    /\ runs[CurrentRun].pc = "upsert"
    /\ LET f == runs[CurrentRun]
       IN  /\ uuids' = uuids + Len(Batch(f))
           /\ upsert_calls' = Append(upsert_calls,
                    [run |-> CurrentRun, points |-> Batch(f), ok |-> TRUE])
           /\ points' = Upsert(points, Batch(f))
           /\ SetRun([f EXCEPT !.pc = "walk"])
    /\ UNCHANGED embed_calls
    /\ UNCHANGED <<tvars, svars, uvars>>

\* Faulty variant of IxUpsertFails: the error is caught inside the loop and
\* the walk goes on with the next directory.
IxUpsertFailsGoesOn ==
    /\ CurrentRun # 0
    /\ runs[CurrentRun].pc = "upsert"
    /\ LET f == runs[CurrentRun]
       IN  /\ uuids' = uuids + Len(Batch(f))
           /\ upsert_calls' = Append(upsert_calls,
                    [run |-> CurrentRun, points |-> Batch(f), ok |-> FALSE])
           /\ SetRun([f EXCEPT !.pc = "walk"])
    /\ UNCHANGED <<points, embed_calls>>
    /\ UNCHANGED <<tvars, svars, uvars>>

\* self.client.upsert raises, the store having taken none of the points:
\* the except clause of index_folder raises SemanticImageSearchException.
IxUpsertFails ==
    /\ CurrentRun # 0
    /\ runs[CurrentRun].pc = "upsert"
    /\ LET f == runs[CurrentRun]
       IN  /\ uuids' = uuids + Len(Batch(f))
           /\ upsert_calls' = Append(upsert_calls,
                    [run |-> CurrentRun, points |-> Batch(f), ok |-> FALSE])
           /\ SetRun([f EXCEPT
                    !.pc = "done", !.outcome = "SemanticImageSearchException"])
    /\ UNCHANGED <<points, embed_calls>>
    /\ UNCHANGED <<tvars, svars, uvars>>

NextIndex ==
    \/ \E root_folder \in RootFolders : IxStart(root_folder)
    \/ IxVisit
    \/ IxEmbed
    \/ IxEmbedFails
    \/ IxUpsert
    \/ IxUpsertFails
    \/ IxReturn

SpecIndex == Init /\ [][NextIndex]_vars

(***************************************************************************)
(* IndexService.index_image.                                               *)
(***************************************************************************)
\* Number of index_image calls made in one behaviour.
MaxImageCalls == 2

\* Python's None where a category is expected (category: Optional[str]): a
\* value equal to no category string.
NoCategory == "None:NoneType"

\* The arguments of index_image: a path indexed before by index_folder, one
\* that is not, with a category and without.
ImagePaths == {"root/dogs/c.webp", "uploads/q.png"}

ImageCategories == {"dogs", NoCategory}

\* The frame of an index_image(image_path, category) call just entered.
NewImageCall(image_path, category) ==
    [ image_path |-> image_path,
      category   |-> category,
      pc         |-> "embed",
      vec        |-> "",
      \* the id drawn for the point, 0 while none is drawn
      id         |-> 0,
      outcome    |-> "running",
      \* the collaborator call that raised: "none", "embed" or "upsert"
      error      |-> "none",
      \* the embedding and upsert calls made by the call
      embeds     |-> 0,
      upserts    |-> 0,
      \* the collection when the call started
      before     |-> points ]

\* The index_image call in progress, 0 when there is none.
CurrentImageCall ==
    IF image_calls # << >> /\ image_calls[Len(image_calls)].outcome = "running"
    THEN Len(image_calls) ELSE 0

SetImageCall(f) == image_calls' = [image_calls EXCEPT ![CurrentImageCall] = f]

\* index_image(image_path, category) is entered.
ImStart(image_path, category) ==
    /\ Len(image_calls) < MaxImageCalls
    /\ CurrentImageCall = 0
    /\ CurrentRun = 0
    /\ image_calls' = Append(image_calls, NewImageCall(image_path, category))
    /\ UNCHANGED <<ivars, tvars, clears, requests, uvars>>

\* vec = embed_image_paths([image_path])[0]
ImEmbed ==
    /\ CurrentImageCall # 0
    /\ image_calls[CurrentImageCall].pc = "embed"
    /\ LET f == image_calls[CurrentImageCall]
       IN  SetImageCall([f EXCEPT
                !.vec = EmbedImage(f.image_path),
                !.embeds = @ + 1,
                !.pc = "upsert"])
    /\ UNCHANGED <<ivars, tvars, clears, requests, uvars>>

\* embed_image_paths raises: the except clause of index_image raises
\* SemanticImageSearchException.
ImEmbedFails ==
    /\ CurrentImageCall # 0
    /\ image_calls[CurrentImageCall].pc = "embed"
    /\ SetImageCall([image_calls[CurrentImageCall] EXCEPT
            !.embeds = @ + 1, !.error = "embed",
            !.pc = "done", !.outcome = "SemanticImageSearchException"])
    /\ UNCHANGED <<ivars, tvars, clears, requests, uvars>>

\* The payload and the PointStruct of index_image, with the id drawn.
ImagePoint(f, id) ==
    [ id      |-> id,
      vector  |-> f.vec,
      payload |-> [ filename |-> Basename(f.image_path),
                    path     |-> f.image_path,
                    category |-> f.category ] ]

\* Faulty variant of ImUpsert: the id of the point is derived from the path
\* of the image (the id the first point of that path holds, when there is
\* one).
ImUpsertIdFromPath ==
    /\ CurrentImageCall # 0
    /\ image_calls[CurrentImageCall].pc = "upsert"
    /\ LET f == image_calls[CurrentImageCall]
           same == {i \in 1..Len(points) : points[i].payload.path = f.image_path}
           id == IF same = {} THEN uuids + 1
                 ELSE points[CHOOSE i \in same : \A j \in same : i <= j].id
       IN  /\ uuids' = uuids + 1
           /\ points' = Upsert(points, <<ImagePoint(f, id)>>)
           /\ SetImageCall([f EXCEPT
                    !.id = id, !.upserts = @ + 1,
                    !.pc = "done", !.outcome = "return"])
    /\ UNCHANGED <<embed_calls, upsert_calls, runs>>
    /\ UNCHANGED <<tvars, clears, requests, uvars>>

\* id = str(uuid4()); self.client.upsert(points = [point], wait = True) is
\* acknowledged and index_image returns.
ImUpsert ==
    /\ CurrentImageCall # 0
    /\ image_calls[CurrentImageCall].pc = "upsert"
    /\ LET f == image_calls[CurrentImageCall]
           id == uuids + 1
       IN  /\ uuids' = uuids + 1
           /\ points' = Upsert(points, <<ImagePoint(f, id)>>)
           /\ SetImageCall([f EXCEPT
                    !.id = id, !.upserts = @ + 1,
                    !.pc = "done", !.outcome = "return"])
    /\ UNCHANGED <<embed_calls, upsert_calls, runs>>
    /\ UNCHANGED <<tvars, clears, requests, uvars>>

\* Faulty variant of ImUpsertFails: the upsert is not awaited (wait = False),
\* the store takes the point and reports the error afterwards.
ImUpsertFailsStored ==
    /\ CurrentImageCall # 0
    /\ image_calls[CurrentImageCall].pc = "upsert"
    /\ LET f == image_calls[CurrentImageCall]
           id == uuids + 1
       IN  /\ uuids' = uuids + 1
           /\ points' = Upsert(points, <<ImagePoint(f, id)>>)
           /\ SetImageCall([f EXCEPT
                    !.id = id, !.upserts = @ + 1, !.error = "upsert",
                    !.pc = "done", !.outcome = "SemanticImageSearchException"])
    /\ UNCHANGED <<embed_calls, upsert_calls, runs>>
    /\ UNCHANGED <<tvars, clears, requests, uvars>>

\* self.client.upsert raises, the store having taken no point: the except
\* clause of index_image raises SemanticImageSearchException.
ImUpsertFails ==
    /\ CurrentImageCall # 0
    /\ image_calls[CurrentImageCall].pc = "upsert"
    /\ LET f == image_calls[CurrentImageCall]
       IN  /\ uuids' = uuids + 1
           /\ SetImageCall([f EXCEPT
                    !.id = uuids + 1, !.upserts = @ + 1, !.error = "upsert",
                    !.pc = "done", !.outcome = "SemanticImageSearchException"])
    /\ UNCHANGED <<points, embed_calls, upsert_calls, runs>>
    /\ UNCHANGED <<tvars, clears, requests, uvars>>

\* index_image calls and index_folder runs over root/dogs, one at a time.
NextImage ==
    \/ \E image_path \in ImagePaths : \E category \in ImageCategories :
            ImStart(image_path, category)
    \/ ImEmbed
    \/ ImEmbedFails
    \/ ImUpsert
    \/ ImUpsertFails
    \/ CurrentImageCall = 0 /\ IxStart("root/dogs")
    \/ IxVisit
    \/ IxEmbed
    \/ IxEmbedFails
    \/ IxUpsert
    \/ IxUpsertFails
    \/ IxReturn

SpecImage == Init /\ [][NextImage]_vars

(***************************************************************************)
(* IndexService.clear_collection.                                          *)
(***************************************************************************)
\* Number of clear_collection calls made in one behaviour.
MaxClears == 1

\* The request being served by search_text_endpoint or search_image_endpoint,
\* 0 when there is none.
CurrentRequest ==
    IF requests # << >> /\ requests[Len(requests)].pc # "done"
    THEN Len(requests) ELSE 0

\* No operation of the services is in progress.
Idle == CurrentRun = 0 /\ CurrentImageCall = 0 /\ CurrentRequest = 0

\* The frame of a clear_collection call that has ended.
ClearFrame(outcome, error) ==
    [ outcome |-> outcome,
      \* the collaborator call that raised: "none" or "delete"
      error   |-> error,
      \* the collection when the call started
      before  |-> points,
      \* the operations that had been started when the call was made
      started |-> [runs |-> Len(runs), image_calls |-> Len(image_calls),
                   requests |-> Len(requests)] ]

\* Faulty variant of ClearCollection: the delete is not awaited and
\* clear_collection returns with the points still in the collection.
ClearCollectionNotAwaited ==
    /\ Len(clears) < MaxClears
    /\ Idle
    /\ clears' = Append(clears, ClearFrame("return", "none"))
    /\ UNCHANGED <<ivars, tvars, image_calls, requests, uvars>>

\* self.client.delete(filter = Filter(must = [])) deletes every point of the
\* collection and clear_collection returns.
ClearCollection ==
    /\ Len(clears) < MaxClears
    /\ Idle
    /\ points' = << >>
    /\ clears' = Append(clears, ClearFrame("return", "none"))
    /\ UNCHANGED <<embed_calls, upsert_calls, uuids, runs>>
    /\ UNCHANGED <<tvars, image_calls, requests, uvars>>

\* self.client.delete raises, the store having deleted nothing: the except
\* clause raises SemanticImageSearchException.
ClearCollectionFails ==
    /\ Len(clears) < MaxClears
    /\ Idle
    /\ clears' = Append(clears, ClearFrame("SemanticImageSearchException", "delete"))
    /\ UNCHANGED <<ivars, tvars, image_calls, requests, uvars>>

(***************************************************************************)
(* ImageSearchService (backend/retriever.py), as section 4.3 of the        *)
(* specification gives it: the query is embedded, the store is asked for   *)
(* the topK most similar points that pass the category filter, in          *)
(* descending order of similarity.                                         *)
(***************************************************************************)
\* embedText: the vector of a text, in the vector space of the images.
EmbedText(text) == "clip:" \o text

\* The similarity the store computes between a query vector and the vector
\* of a point.
Score(qv, v) == (3 * Len(qv) + 5 * Len(v)) % 7

\* No metadata_filter, and the equality filter on a category.
NoFilter == [is_none |-> TRUE, category |-> ""]

CategoryFilter(category) == [is_none |-> FALSE, category |-> category]

\* The point passes the filter of the search.
Matches(p, metadata_filter) ==
    metadata_filter.is_none \/ p.payload.category = metadata_filter.category

\* The hits in descending order of score (hits of equal score stay in the
\* order of the collection).
RECURSIVE SortByScore(_)
SortByScore(hits) ==
    IF hits = << >> THEN << >>
    ELSE LET h == Head(hits)
             rest == SortByScore(Tail(hits))
             n == Cardinality({i \in 1..Len(rest) : rest[i].score > h.score})
         IN  SubSeq(rest, 1, n) \o <<h>> \o SubSeq(rest, n + 1, Len(rest))

\* search(collection, namedVectorQuery, topK, filter) on the store.
Search(store, qv, k, metadata_filter) ==
    LET scored == [i \in 1..Len(store) |->
                        [id      |-> store[i].id,
                         payload |-> store[i].payload,
                         score   |-> Score(qv, store[i].vector)]]
        hits == SortByScore(SelectSeq(scored, LAMBDA h : Matches(h, metadata_filter)))
    IN  SubSeq(hits, 1, Min(k, Len(hits)))

(***************************************************************************)
(* search_text_endpoint and search_image_endpoint (backend/main.py).       *)
(***************************************************************************)
\* Number of search requests made in one behaviour.
MaxRequests == 1

\* bool(category) of Python: None and the empty string are false.
Truthy(category) == category # NoCategory /\ category # ""

\* metadata_filter = {"category": category} if category else None
MetadataFilter(category) ==
    IF Truthy(category) THEN CategoryFilter(category) ELSE NoFilter

\* The response while the request is served, the JSON bodies the endpoints
\* return, by their keys, and the 500 response of the except clauses.
NoResponse ==
    [status_code |-> 0, keys |-> {}, type |-> "", translated |-> "",
     saved_folder |-> None, results |-> << >>]

ErrorResponse(type) ==
    [status_code |-> 500, keys |-> {"error", "type"}, type |-> type,
     translated |-> "", saved_folder |-> None, results |-> << >>]

OkResponse(f, folder) ==
    [status_code |-> 200,
     keys |-> IF f.kind = "text"
              THEN {"query", "translated", "k", "saved_folder", "results"}
              ELSE {"query_image", "k", "saved_folder", "results"},
     type |-> "", translated |-> f.translated,
     saved_folder |-> folder, results |-> f.resp]

\* The frame of a request just received: kind is "text" (q is the query) or
\* "image" (q is the path of the staged query image).
NewRequest(kind, q, k, category, save_results) ==
    [ kind            |-> kind,
      q               |-> q,
      k               |-> k,
      category        |-> category,
      save_results    |-> save_results,
      pc              |-> IF kind = "text" THEN "translate" ELSE "embed",
      \* the translate_query call of the request, an index in calls
      call            |-> IF kind = "text" THEN Len(calls) + 1 ELSE 0,
      translated      |-> "",
      metadata_filter |-> IF kind = "text" THEN NoFilter ELSE MetadataFilter(category),
      qv              |-> "",
      \* results.points
      results         |-> << >>,
      resp            |-> << >>,
      response        |-> NoResponse,
      \* the calls made for the request: to the Embedding Provider, to the
      \* search of the Vector Store, to save_results
      embeds          |-> 0,
      searches        |-> 0,
      saves           |-> 0,
      \* the collection the store searched
      searched        |-> << >>,
      \* the operations that had been started when the request was received
      started         |-> [runs |-> Len(runs), image_calls |-> Len(image_calls),
                           clears |-> Len(clears)] ]

SetRequest(f) == requests' = [requests EXCEPT ![CurrentRequest] = f]

\* The request ends in the except clause of the endpoint.
Raise(f, type) == SetRequest([f EXCEPT !.pc = "done", !.response = ErrorResponse(type)])

\* GET /search-text is received: translate_query(q) is entered and tests the
\* global.
StReceive(q, k, category, save_results) ==
    /\ Len(requests) < MaxRequests
    /\ Idle
    /\ calls' = Append(calls, [NewFrame(Str(q)) EXCEPT
            !.pc = IF _translator_instance = None THEN "tq_new" ELSE "call"])
    /\ requests' = Append(requests, NewRequest("text", q, k, category, save_results))
    /\ UNCHANGED <<_translator_instance, translators>>
    /\ UNCHANGED <<ivars, image_calls, clears, uvars>>

\* Faulty variant of StTranslated: a query that cannot be translated is
\* searched as it was received.
StTranslatedFallsBack ==
    /\ CurrentRequest # 0
    /\ requests[CurrentRequest].pc = "translate"
    /\ calls[requests[CurrentRequest].call].pc = "done"
    /\ LET f == requests[CurrentRequest]
           call == calls[f.call]
       IN  SetRequest([f EXCEPT
                !.translated = IF call.outcome = "return" THEN call.ret ELSE f.q,
                !.metadata_filter = MetadataFilter(f.category),
                !.pc = "embed"])
    /\ UNCHANGED <<ivars, tvars, image_calls, clears, uvars>>

\* translate_query(q) has returned or raised: the endpoint builds the
\* metadata_filter, or its except clause answers 500.
StTranslated ==
    /\ CurrentRequest # 0
    /\ requests[CurrentRequest].pc = "translate"
    /\ calls[requests[CurrentRequest].call].pc = "done"
    /\ LET f == requests[CurrentRequest]
           call == calls[f.call]
       IN  IF call.outcome = "return"
           THEN SetRequest([f EXCEPT
                    !.translated = call.ret,
                    !.metadata_filter = MetadataFilter(f.category),
                    !.pc = "embed"])
           ELSE Raise(f, call.outcome)
    /\ UNCHANGED <<ivars, tvars, image_calls, clears, uvars>>

\* POST /search-image, its upload staged at query_path: the endpoint builds
\* the metadata_filter and calls search_by_image.
SiStaged(query_path, k, category, save_results) ==
    /\ Len(requests) < MaxRequests
    /\ Idle
    /\ requests' = Append(requests, NewRequest("image", query_path, k, category, save_results))
    /\ UNCHANGED <<ivars, tvars, image_calls, clears, uvars>>

\* search_by_text, search_by_image: the query is embedded.
StEmbed ==
    /\ CurrentRequest # 0
    /\ requests[CurrentRequest].pc = "embed"
    /\ LET f == requests[CurrentRequest]
       IN  SetRequest([f EXCEPT
                !.qv = IF f.kind = "text" THEN EmbedText(f.translated) ELSE EmbedImage(f.q),
                !.embeds = @ + 1,
                !.pc = "query"])
    /\ UNCHANGED <<ivars, tvars, image_calls, clears, uvars>>

\* The Embedding Provider raises: the search fails with SearchFailure.
StEmbedFails ==
    /\ CurrentRequest # 0
    /\ requests[CurrentRequest].pc = "embed"
    /\ Raise([requests[CurrentRequest] EXCEPT !.embeds = @ + 1],
             "SemanticImageSearchException")
    /\ UNCHANGED <<ivars, tvars, image_calls, clears, uvars>>

\* search_by_text, search_by_image: the store is searched and the results
\* are returned to the endpoint.
StQuery ==
    /\ CurrentRequest # 0
    /\ requests[CurrentRequest].pc = "query"
    /\ LET f == requests[CurrentRequest]
       IN  SetRequest([f EXCEPT
                !.results = Search(points, f.qv, f.k, f.metadata_filter),
                !.searched = points,
                !.searches = @ + 1,
                !.pc = "respond"])
    /\ UNCHANGED <<ivars, tvars, image_calls, clears, uvars>>

\* The Vector Store raises: the search fails with SearchFailure.
StQueryFails ==
    /\ CurrentRequest # 0
    /\ requests[CurrentRequest].pc = "query"
    /\ Raise([requests[CurrentRequest] EXCEPT !.searches = @ + 1],
             "SemanticImageSearchException")
    /\ UNCHANGED <<ivars, tvars, image_calls, clears, uvars>>

\* resp = [{filename, path, category, score} for p in results.points]
Resp(results) ==
    [i \in 1..Len(results) |->
        [filename |-> results[i].payload.filename,
         path     |-> results[i].payload.path,
         category |-> results[i].payload.category,
         score    |-> results[i].score]]

\* Faulty variant of StRespond: the results are reported in the order of
\* their file names.
StRespondByName ==
    /\ CurrentRequest # 0
    /\ requests[CurrentRequest].pc = "respond"
    /\ LET f == requests[CurrentRequest]
           byname == [i \in 1..Len(f.results) |->
                        [f.results[i] EXCEPT !.score = 0 - Len(f.results[i].payload.filename)]]
           order == SortByScore(byname)
           g == [f EXCEPT !.resp = Resp([i \in 1..Len(order) |->
                    CHOOSE h \in {f.results[j] : j \in 1..Len(f.results)} : h.id = order[i].id])]
       IN  IF f.save_results /\ f.results # << >>
           THEN SetRequest([g EXCEPT !.pc = "save"])
           ELSE SetRequest([g EXCEPT !.pc = "done", !.response = OkResponse(g, None)])
    /\ UNCHANGED <<ivars, tvars, image_calls, clears, uvars>>

\* The endpoint builds resp from results.points, then saves the results if
\* it was asked to and there are some, else returns the response.
StRespond ==
    /\ CurrentRequest # 0
    /\ requests[CurrentRequest].pc = "respond"
    /\ LET f == requests[CurrentRequest]
           g == [f EXCEPT !.resp = Resp(f.results)]
       IN  IF f.save_results /\ f.results # << >>
           THEN SetRequest([g EXCEPT !.pc = "save"])
           ELSE SetRequest([g EXCEPT !.pc = "done", !.response = OkResponse(g, None)])
    /\ UNCHANGED <<ivars, tvars, image_calls, clears, uvars>>

\* The folders save_results has created so far.
SavedFolders ==
    Cardinality({r \in 1..Len(requests) : requests[r].response.saved_folder # None})

\* folder = search_service.save_results(results): a fresh folder is made and
\* named in the response.
StSave ==
    /\ CurrentRequest # 0
    /\ requests[CurrentRequest].pc = "save"
    /\ LET f == [requests[CurrentRequest] EXCEPT !.saves = @ + 1]
       IN  SetRequest([f EXCEPT !.pc = "done",
                                !.response = OkResponse(f, SavedFolders + 1)])
    /\ UNCHANGED <<ivars, tvars, image_calls, clears, uvars>>

\* save_results raises: the except clause of the endpoint answers 500.
StSaveFails ==
    /\ CurrentRequest # 0
    /\ requests[CurrentRequest].pc = "save"
    /\ Raise([requests[CurrentRequest] EXCEPT !.saves = @ + 1],
             "SemanticImageSearchException")
    /\ UNCHANGED <<ivars, tvars, image_calls, clears, uvars>>

\* The parameters of the requests: a caption-style query, a conversational
\* one and a blank one; the k and category parameters a caller passes.
SearchQueries == {"red car", "show me a red car", " "}

TopKs == {1, 5}

Categories == {NoCategory, "", "cats"}

\* Searches of a caption-style query and of a staged image, index_folder
\* runs over root/ and clear_collection calls, one at a time.
NextSearch ==
    \/ \E k \in TopKs : \E category \in Categories :
        StReceive("red car", k, category, FALSE)
    \/ \E c \in 1..Len(calls) : TqNew(c)
    \/ \E c \in 1..Len(calls) : TrBegin(c)
    \/ \E c \in 1..Len(calls) : CacheCheck(c)
    \/ StTranslated
    \/ \E category \in {NoCategory, "cats"} :
        SiStaged("query_images/q.png", 5, category, FALSE)
    \/ StEmbed
    \/ StQuery
    \/ StRespond
    \/ CurrentRequest = 0 /\ Len(runs) < MaxClears /\ IxStart("root/")
    \/ IxVisit
    \/ IxEmbed
    \/ IxUpsert
    \/ IxReturn
    \/ ClearCollection
    \/ ClearCollectionFails

SpecSearch == Init /\ [][NextSearch]_vars

\* Requests GET /search-text with every kind of query, after index_folder
\* runs over root/cats, one at a time.
NextRequest ==
    \/ \E q \in SearchQueries : \E category \in {NoCategory, "cats"} :
        \E save_results \in BOOLEAN : StReceive(q, 5, category, save_results)
    \/ \E c \in 1..Len(calls) : TqNew(c)
    \/ \E c \in 1..Len(calls) : TqNewFails(c)
    \/ \E c \in 1..Len(calls) : TrBegin(c)
    \/ \E c \in 1..Len(calls) : CacheCheck(c)
    \/ \E c \in 1..Len(calls) : LlmInvoke(c)
    \/ \E c \in 1..Len(calls) : LlmFails(c)
    \/ \E c \in 1..Len(calls) : Store(c)
    \/ StTranslated
    \/ StEmbed
    \/ StEmbedFails
    \/ StQuery
    \/ StQueryFails
    \/ StRespond
    \/ StSave
    \/ StSaveFails
    \/ CurrentRequest = 0 /\ Len(runs) < MaxRequests /\ IxStart("root/cats")
    \/ IxVisit
    \/ IxEmbed
    \/ IxUpsert
    \/ IxReturn

SpecRequest == Init /\ [][NextRequest]_vars

(***************************************************************************)
(* search_image_endpoint (backend/main.py) from the receipt of the upload, *)
(* one action per step a request thread takes between two points where     *)
(* another thread can run.  The endpoint is a plain def: the framework      *)
(* serves each request in a thread of its pool, and the threads share the  *)
(* directory Config.QUERY_IMAGE_ROOT.                                      *)
(***************************************************************************)
\* Number of POST /search-image requests made in one behaviour.
MaxUploads == 2

\* Config.QUERY_IMAGE_ROOT
QUERY_IMAGE_ROOT == "query_images"

\* A block of a file that no write has filled (the file was truncated and
\* then written past its end).
Hole == "00"

\* The block at position pos (from 0) of a file becomes block; a write past
\* the end of the file leaves holes before it.
RECURSIVE WriteAt(_, _, _)
WriteAt(content, pos, block) ==
    IF pos < Len(content) THEN [content EXCEPT ![pos + 1] = block]
    ELSE IF pos = Len(content) THEN Append(content, block)
    ELSE WriteAt(Append(content, Hole), pos, block)

\* The bytes of a file, block after block.
RECURSIVE Bytes(_)
Bytes(content) ==
    IF content = << >> THEN "" ELSE Head(content) \o Bytes(Tail(content))

\* The 400 response of line 154.
BadRequestResponse ==
    [status_code |-> 400, keys |-> {"error"}, type |-> "", translated |-> "",
     saved_folder |-> None, results |-> << >>]

\* The frame of a request just received, file being the blocks of the
\* upload.
NewUpload(filename, content_type, file, k, category, save_results) ==
    [ kind            |-> "image",
      filename        |-> filename,
      content_type    |-> content_type,
      file            |-> file,
      k               |-> k,
      category        |-> category,
      save_results    |-> save_results,
      pc              |-> "check",
      query_path      |-> "",
      \* the position of the open file f, in blocks
      offset          |-> 0,
      metadata_filter |-> NoFilter,
      \* the blocks the embedding of the request read at query_path
      read            |-> << >>,
      qv              |-> "",
      results         |-> << >>,
      resp            |-> << >>,
      translated      |-> "",
      response        |-> NoResponse,
      \* the calls made for the request: to the Embedding Provider and to
      \* the search of the Vector Store
      embeds          |-> 0,
      searches        |-> 0 ]

SetUpload(r, f) == uploads' = [uploads EXCEPT ![r] = f]

\* POST /search-image is received by a thread of the pool.
SiReceive(filename, content_type, file, k, category, save_results) ==
    /\ Len(uploads) < MaxUploads
    /\ uploads' = Append(uploads,
            NewUpload(filename, content_type, file, k, category, save_results))
    /\ UNCHANGED <<ivars, tvars, svars, query_images>>

\* if not file.content_type.startswith("image/"): the 400 response; else
\* query_path = Config.QUERY_IMAGE_ROOT / file.filename
SiCheck(r) ==
    /\ uploads[r].pc = "check"
    /\ LET f == uploads[r]
       IN  IF ~StartsWith(f.content_type, "image/")
           THEN SetUpload(r, [f EXCEPT !.pc = "done",
                                       !.response = BadRequestResponse])
           ELSE SetUpload(r, [f EXCEPT !.pc = "open",
                    !.query_path = Join(QUERY_IMAGE_ROOT, f.filename)])
    /\ UNCHANGED <<ivars, tvars, svars, query_images>>

\* with query_path.open("wb") as f: the file is created, or truncated if it
\* exists.
SiOpen(r) ==
    /\ uploads[r].pc = "open"
    /\ LET f == uploads[r]
       IN  /\ query_images' =
                [name \in DOMAIN query_images \cup {f.query_path} |->
                    IF name = f.query_path THEN << >> ELSE query_images[name]]
           /\ SetUpload(r, [f EXCEPT !.pc = "copy", !.offset = 0])
    /\ UNCHANGED <<ivars, tvars, svars>>

\* shutil.copyfileobj(file.file, f): the next block of the upload is written
\* at the position of f; after the last one the file is closed and the
\* metadata_filter is built.
SiCopy(r) ==
    /\ uploads[r].pc = "copy"
    /\ LET f == uploads[r]
           last == f.offset + 1 = Len(f.file)
       IN  /\ query_images' = [query_images EXCEPT ![f.query_path] =
                    WriteAt(@, f.offset, f.file[f.offset + 1])]
           /\ SetUpload(r, [f EXCEPT
                    !.offset = @ + 1,
                    !.metadata_filter = IF last THEN MetadataFilter(f.category) ELSE @,
                    !.pc = IF last THEN "embed" ELSE "copy"])
    /\ UNCHANGED <<ivars, tvars, svars>>


\* The images a caller uploads, by their blocks; the first block of an image
\* holds its header.
Images == {<<"a1", "a2">>, <<"b1">>}

\* The vector of the image whose file holds these blocks.
EmbedImageFile(content) == "clip:" \o Bytes(content)

\* The file can be opened as an image: it starts with the header of one.
HasImageHeader(content) == content # << >> /\ Head(content) # Hole

\* search_by_image(str(query_path), ...): the file at query_path is read as
\* it is now and embedded.
SiEmbed(r) ==
    /\ uploads[r].pc = "embed"
    /\ HasImageHeader(query_images[uploads[r].query_path])
    /\ LET f == uploads[r]
           content == query_images[f.query_path]
       IN  SetUpload(r, [f EXCEPT
                !.read = content,
                !.qv = EmbedImageFile(content),
                !.embeds = @ + 1,
                !.pc = "query"])
    /\ UNCHANGED <<ivars, tvars, svars, query_images>>

\* The file at query_path is not a whole image (it is empty, truncated or
\* mixed from two uploads) and the Embedding Provider raises: the except
\* clause of the endpoint answers 500.
SiEmbedFails(r) ==
    /\ uploads[r].pc = "embed"
    /\ query_images[uploads[r].query_path] \notin Images
    /\ LET f == uploads[r]
       IN  SetUpload(r, [f EXCEPT
                !.read = query_images[f.query_path],
                !.embeds = @ + 1,
                !.pc = "done",
                !.response = ErrorResponse("SemanticImageSearchException")])
    /\ UNCHANGED <<ivars, tvars, svars, query_images>>

\* search_by_image: the store is searched and the results are returned to
\* the endpoint.
SiQuery(r) ==
    /\ uploads[r].pc = "query"
    /\ LET f == uploads[r]
       IN  SetUpload(r, [f EXCEPT
                !.results = Search(points, f.qv, f.k, f.metadata_filter),
                !.searches = @ + 1,
                !.pc = "respond"])
    /\ UNCHANGED <<ivars, tvars, svars, query_images>>

\* The folders save_results has created for image searches so far.
SavedUploadFolders ==
    Cardinality({r \in 1..Len(uploads) : uploads[r].response.saved_folder # None})

\* The endpoint builds resp from results.points, saves the results in a
\* fresh folder if it was asked to and there are some, and returns the
\* response.
SiRespond(r) ==
    /\ uploads[r].pc = "respond"
    /\ LET f == uploads[r]
           g == [f EXCEPT !.resp = Resp(f.results)]
           folder == IF f.save_results /\ f.results # << >>
                     THEN SavedUploadFolders + 1 ELSE None
       IN  SetUpload(r, [g EXCEPT !.pc = "done",
                                  !.response = OkResponse(g, folder)])
    /\ UNCHANGED <<ivars, tvars, svars, query_images>>

\* The requests callers make: two images under the same name, and under
\* another name, one of them with save_results; a file that is no image.
UploadForms ==
    { <<"q.png", "image/png", <<"a1", "a2">>, FALSE>>,
      <<"q.png", "image/png", <<"b1">>, FALSE>>,
      <<"r.png", "image/png", <<"a1", "a2">>, TRUE>>,
      <<"r.png", "image/png", <<"b1">>, FALSE>>,
      <<"notes.txt", "text/plain", <<"b1">>, FALSE>> }

\* Concurrent POST /search-image requests, after an index_folder run over
\* root/dogs or over an empty collection.
NextUpload ==
    \/ \E u \in UploadForms :
            /\ CurrentRun = 0
            /\ SiReceive(u[1], u[2], u[3], 5, NoCategory, u[4])
    \/ \E r \in 1..Len(uploads) : SiCheck(r)
    \/ \E r \in 1..Len(uploads) : SiOpen(r)
    \/ \E r \in 1..Len(uploads) : SiCopy(r)
    \/ \E r \in 1..Len(uploads) : SiEmbed(r)
    \/ \E r \in 1..Len(uploads) : SiEmbedFails(r)
    \/ \E r \in 1..Len(uploads) : SiQuery(r)
    \/ \E r \in 1..Len(uploads) : SiRespond(r)
    \/ uploads = << >> /\ runs = << >> /\ IxStart("root/dogs")
    \/ IxVisit
    \/ IxEmbed
    \/ IxUpsert
    \/ IxReturn

SpecUpload == Init /\ [][NextUpload]_vars

(***************************************************************************)
(* What the properties speak of: the frames, and the normalized form of a  *)
(* raw query stated position by position.                                  *)
(***************************************************************************)
Frames == {calls[c] : c \in 1..Len(calls)}

\* translate was entered by the call (the constructor did not fail first).
InTranslate(f) == f.self # None

\* The call is past the validation and normalization of its argument.
Normalized(f) == InTranslate(f) /\ f.pc \in {"cache_check", "llm", "store", "done"}
                    /\ f.outcome # "ValueError"

Blank(s) == \A i \in 1..Len(s) : CharAt(s, i) \in WHITESPACE

\* The positions of the first and the last character of s that is not
\* white space (s is not blank).
FirstInk(s) == CHOOSE i \in 1..Len(s) :
    CharAt(s, i) \notin WHITESPACE /\ \A k \in 1..(i - 1) : CharAt(s, k) \in WHITESPACE

LastInk(s) == CHOOSE j \in 1..Len(s) :
    CharAt(s, j) \notin WHITESPACE /\ \A k \in (j + 1)..Len(s) : CharAt(s, k) \in WHITESPACE

\* The length of the normalized form of s: that of s without its
\* surrounding white space, at most the limit.
NormalLen(s) == Min(LastInk(s) - FirstInk(s) + 1, MAX_QUERY_LENGTH)

\* n is the normalized form of the raw string s (s is not blank).
IsNormalFormOf(n, s) ==
    /\ Len(n) = NormalLen(s)
    /\ \A k \in 1..Len(n) : CharAt(n, k) = LowerChar(CharAt(s, FirstInk(s) + k - 1))

\* The normalized forms of s and t are equal (neither is blank).
SameNormalForm(s, t) ==
    /\ NormalLen(s) = NormalLen(t)
    /\ \A k \in 1..NormalLen(s) :
            LowerChar(CharAt(s, FirstInk(s) + k - 1))
                = LowerChar(CharAt(t, FirstInk(t) + k - 1))

\* What stands in a prompt between the fixed instruction texts.
QueryInPrompt(prompt) ==
    SubSeq(prompt, Len(PROMPT_HEAD) + 1, Len(prompt) - Len(PROMPT_TAIL))

HasTrigger(n) == \E pattern \in CHAT_PATTERNS : Contains(n, pattern)

C3_InvalidQueryRejected ==
    \A f \in Frames :
        (~IsStr(f.user_query) \/ Blank(f.user_query.value)) =>
            /\ f.llm = 0 /\ f.prompt = "" /\ f.answer = "none"
            /\ ~f.wrote
            /\ f.pc \in {"tq_new", "call", "done"}
            /\ (f.pc = "done" /\ InTranslate(f)) =>
                    /\ f.outcome = "ValueError"
                    /\ f.outcome # "SemanticImageSearchException"
            /\ \A g \in Frames : g.answer = "error" => g.outcome # "ValueError"

\* A white-space-only query was rejected by a translator whose cache held
\* an entry already.
C3_Witness ==
    \E f \in Frames :
        /\ f.user_query = Str(" \t ")
        /\ f.pc = "done" /\ f.outcome = "ValueError"
        /\ \E c \in f.prior : calls[c].wrote /\ calls[c].self = f.self

\* C4: a query longer than 200 characters is cut to exactly 200 characters
\* before the cache check and before caching: every cache key, every query
\* put in a prompt and every string returned on the caption-style path has
\* at most 200 characters, and two queries whose normalized forms share
\* their first 200 characters use the same cache entry.
C4_TruncatedBeforeCacheAndPrompt ==
    /\ \A i \in 1..Len(translators) :
         \A k \in DOMAIN translators[i] : Len(k) <= MAX_QUERY_LENGTH
    /\ \A f \in Frames :
        /\ f.llm > 0 =>
            /\ Len(f.prompt) <= Len(PROMPT_HEAD) + MAX_QUERY_LENGTH + Len(PROMPT_TAIL)
            /\ IsNormalFormOf(QueryInPrompt(f.prompt), f.user_query.value)
        /\ (f.pc = "done" /\ f.outcome = "return" /\ ~f.hit /\ f.llm = 0) =>
                Len(f.ret) <= MAX_QUERY_LENGTH
        /\ (/\ Normalized(f)
            /\ LastInk(f.user_query.value) - FirstInk(f.user_query.value) + 1
                    > MAX_QUERY_LENGTH) =>
                Len(f.normalized_query) = MAX_QUERY_LENGTH
    /\ \A c1, c2 \in 1..Len(calls) :
        LET f == calls[c1]
            g == calls[c2]
        IN  (/\ c1 \in g.prior
             /\ Normalized(f) /\ Normalized(g) /\ f.self = g.self
             /\ SameNormalForm(f.user_query.value, g.user_query.value)) =>
                /\ f.normalized_query = g.normalized_query
                /\ (f.wrote /\ g.pc = "done") =>
                        /\ g.hit /\ g.llm = 0
                        /\ g.ret = translators[g.self][f.normalized_query]

\* Two raw queries longer than the limit that differ after character 200:
\* the first was rewritten and cached, the second was answered from that
\* entry.
C4_Witness ==
    \E c1, c2 \in 1..Len(calls) :
        LET f == calls[c1]
            g == calls[c2]
        IN  /\ c1 \in g.prior /\ f.self = g.self
            /\ f.wrote /\ g.pc = "done" /\ g.hit
            /\ Len(f.user_query.value) > MAX_QUERY_LENGTH
            /\ Len(g.user_query.value) > MAX_QUERY_LENGTH
            /\ Lower(Strip(f.user_query.value)) # Lower(Strip(g.user_query.value))
            /\ Len(f.normalized_query) = MAX_QUERY_LENGTH


(***************************************************************************)
(* Properties of repeated and concurrent calls.                            *)
(***************************************************************************)
\* Calls c1 and c2 are made with the same conversational query on the same
\* translator, c1 having ended before c2 started.
Repeated(c1, c2) ==
    LET f == calls[c1]
        g == calls[c2]
    IN  /\ c1 \in g.prior
        /\ f.user_query = g.user_query
        /\ Normalized(f) /\ HasTrigger(f.normalized_query)
        /\ g.self = f.self

\* A call other than c1 and c2, not ended when c1 started, stored a caption
\* under the key of c1 in the cache c1 uses.
RacingWriter(c1, c2) ==
    \E c3 \in (1..Len(calls)) \ {c1, c2} :
        /\ calls[c3].wrote
        /\ calls[c3].self = calls[c1].self
        /\ calls[c3].normalized_query = calls[c1].normalized_query
        /\ c3 \notin calls[c1].prior

OtherWriter(c, i, k) ==
    \E c3 \in (1..Len(calls)) \ {c} :
        calls[c3].wrote /\ calls[c3].self = i /\ calls[c3].normalized_query = k

\* C5: a call whose provider call fails or times out ends with
\* SemanticImageSearchException (TranslationFailure) and writes no cache
\* entry, and a later call with the same query on that translator calls the
\* provider again (no other call having cached that query).
C5_ProviderFailureLeavesCache ==
    /\ \A f \in Frames :
        f.answer = "error" =>
            /\ f.pc = "done" /\ f.outcome = "SemanticImageSearchException"
            /\ f.llm = 1 /\ ~f.wrote /\ ~f.hit
    /\ \A c1, c2 \in 1..Len(calls) :
        LET f == calls[c1]
            g == calls[c2]
        IN  (/\ f.answer = "error" /\ c1 \in g.prior
             /\ Normalized(g) /\ g.self = f.self
             /\ g.normalized_query = f.normalized_query
             /\ ~OtherWriter(c2, g.self, g.normalized_query)) =>
                /\ ~g.hit
                /\ g.pc \in {"cache_check", "llm", "store", "done"}
                /\ g.pc \in {"store", "done"} => (g.llm = 1 /\ g.prompt = f.prompt)

\* A provider call failed, and a later call with a query of the same
\* normalized form asked the provider again and cached its caption.
C5_Witness ==
    \E c1, c2 \in 1..Len(calls) :
        LET f == calls[c1]
            g == calls[c2]
        IN  /\ f.answer = "error" /\ c1 \in g.prior /\ g.self = f.self
            /\ g.normalized_query = f.normalized_query
            /\ g.user_query # f.user_query
            /\ g.pc = "done" /\ g.llm = 1 /\ g.answer = "ok" /\ g.wrote

\* C6 as stated: a cache entry, once created, is never removed and its
\* caption never changes, under any interleaving of translate calls.
C6_Original ==
    [][\A i \in 1..Len(translators) :
        \A k \in DOMAIN translators[i] :
            /\ k \in DOMAIN translators'[i]
            /\ translators'[i][k] = translators[i][k]]_vars

\* C7: of two first-time calls for one normalized query on one translator
\* that both missed the cache and both asked the provider, both write the
\* key, and the cache holds for it the caption written last.
C7_LastWriterWins ==
    /\ \A f \in Frames :
        /\ f.wrote => f.nth_write > 0
        /\ (f.pc = "done" /\ f.answer = "ok") => f.nth_write > 0
        /\ f.nth_write > 0 =>
            /\ f.answer = "ok" /\ ~f.hit /\ f.pc = "done"
            /\ f.normalized_query \in DOMAIN translators[f.self]
            /\ f.ret = f.final_caption
    /\ \A c1, c2 \in 1..Len(calls) :
        LET f == calls[c1]
            g == calls[c2]
        IN  (/\ f.nth_write > 0 /\ f.nth_write < g.nth_write
             /\ f.self = g.self
             /\ f.normalized_query = g.normalized_query
             /\ \A c3 \in 1..Len(calls) :
                    (/\ calls[c3].self = g.self
                     /\ calls[c3].normalized_query = g.normalized_query)
                        => calls[c3].nth_write <= g.nth_write) =>
                translators[g.self][g.normalized_query] = g.final_caption

\* Two calls in progress at the same time both missed the cache for the
\* same key, got different captions from the provider and both stored
\* theirs; the cache holds the one stored last.
C7_Witness ==
    \E c1, c2 \in 1..Len(calls) :
        LET f == calls[c1]
            g == calls[c2]
        IN  /\ c1 \notin g.prior /\ c2 \notin f.prior
            /\ f.self = g.self /\ f.normalized_query = g.normalized_query
            /\ f.llm = 1 /\ g.llm = 1 /\ f.wrote /\ g.wrote
            /\ 0 < f.nth_write /\ f.nth_write < g.nth_write
            /\ f.final_caption # g.final_caption
            /\ translators[g.self][g.normalized_query] = g.final_caption
            /\ Cardinality(DOMAIN translators[g.self]) = 1

\* C8 as stated: at most one QueryTranslator is ever constructed, and an
\* entry cached by a call that has ended is in the cache every later call
\* consults.
C8_Original ==
    /\ Len(translators) <= 1
    /\ \A c1, c2 \in 1..Len(calls) :
        LET f == calls[c1]
            g == calls[c2]
        IN  (c1 \in g.prior /\ f.wrote /\ InTranslate(g)) =>
                f.normalized_query \in DOMAIN translators[g.self]


(***************************************************************************)
(* Properties of index_folder.                                             *)
(***************************************************************************)
\* The points run r added to the collection.
RunPoints(r) ==
    SubSeq(points, runs[r].before + 1,
           IF r < Len(runs) THEN runs[r + 1].before ELSE Len(points))

\* The embedding calls and the upsert calls of run r, in order.
EmbedsOf(r) == SelectSeq(embed_calls, LAMBDA e : e.run = r)

UpsertsOf(r) == SelectSeq(upsert_calls, LAMBDA u : u.run = r)

PathsOf(batch) == [i \in 1..Len(batch) |-> batch[i].payload.path]

\* The directories of the tree under root, root included.
TreeDirs(root) ==
    {d \in DOMAIN FileSystem :
        \/ d = Resolve(root)
        \/ /\ Len(d) > Len(Resolve(root))
           /\ SubSeq(d, 1, Len(Resolve(root)) + 1) = Resolve(root) \o "/"}

\* The name ends in .jpg, .jpeg, .png or .webp, in any case.
ImageFile(name) ==
    \E e \in {".jpg", ".jpeg", ".png", ".webp"} :
        /\ Len(name) >= Len(e)
        /\ \A i \in 1..Len(e) :
                LowerChar(CharAt(name, Len(name) - Len(e) + i)) = CharAt(e, i)

\* The qualifying files of the tree under root: directory and name.
TreeImages(root) ==
    UNION { { [dir |-> d, name |-> FileSystem[d].files[i]] :
                i \in {j \in 1..Len(FileSystem[d].files) :
                            ImageFile(FileSystem[d].files[j])} } :
            d \in TreeDirs(root) }

\* The name of a directory: the last component of its path.
DirName(d) == SubSeq(d, LastSlash(d) + 1, Len(d))

\* The directory that directly contains the file at a path.
DirOf(path) == Resolve(SubSeq(path, 1, LastSlash(path)))

\* C9 as stated: a run that returns has indexed exactly one point per file
\* of the tree whose name ends in .jpg, .jpeg, .png or .webp (in any case),
\* the category of each point being the name of the directory that directly
\* contains the file, and no other file is ever embedded or upserted.
C9_Original ==
    /\ \A r \in 1..Len(runs) :
        runs[r].outcome = "return" =>
            LET P == RunPoints(r)
                T == TreeImages(runs[r].root_folder)
            IN  /\ Len(P) = Cardinality(T)
                /\ \A t \in T :
                    \E i \in 1..Len(P) :
                        /\ DirOf(P[i].payload.path) = t.dir
                        /\ P[i].payload.filename = t.name
                        /\ P[i].payload.category = DirName(t.dir)
    /\ \A i \in 1..Len(embed_calls) :
        \A k \in 1..Len(embed_calls[i].paths) :
            ImageFile(DirName(embed_calls[i].paths[k]))
    /\ \A i \in 1..Len(upsert_calls) :
        \A k \in 1..Len(upsert_calls[i].points) :
            ImageFile(upsert_calls[i].points[k].payload.filename)

\* The directories os.walk yields for root that hold a qualifying file,
\* with the paths index_folder collects in each.
WalkBatches(root) ==
    LET W == Walk(root)
        all == [i \in 1..Len(W) |->
                    LET collected == Collect(W[i].dirpath, "", W[i].files)
                    IN  [k \in 1..Len(collected) |-> collected[k].path]]
    IN  SelectSeq(all, LAMBDA b : b # << >>)

RECURSIVE Flatten(_)
Flatten(ss) == IF ss = << >> THEN << >> ELSE Head(ss) \o Flatten(Tail(ss))

\* The same, and the qualifying files of the tree, for each root folder of
\* the model.
BatchesOf == [root \in RootFolders |-> WalkBatches(root)]

ImagesOf == [root \in RootFolders |-> TreeImages(root)]

\* C10: a run fails with SemanticImageSearchException (IndexingFailure) on
\* its first embedding or upsert error; the directories upserted before are
\* still indexed, the failing directory contributes no point, and no later
\* directory of the walk is embedded or upserted.
C10_AbortOnFirstError ==
    \A r \in 1..Len(runs) :
        LET f == runs[r]
            E == EmbedsOf(r)
            U == UpsertsOf(r)
            Q == BatchesOf[f.root_folder]
            failed == (\E i \in 1..Len(E) : ~E[i].ok) \/ (\E i \in 1..Len(U) : ~U[i].ok)
        IN  /\ failed <=> f.outcome = "SemanticImageSearchException"
            /\ failed =>
                LET k == Len(E) - 1
                IN  /\ f.pc = "done"
                    /\ Len(E) <= Len(Q)
                    /\ \A i \in 1..Len(E) : E[i].paths = Q[i]
                    /\ \A i \in 1..k : E[i].ok
                    /\ Len(U) = IF E[k + 1].ok THEN k + 1 ELSE k
                    /\ \A i \in 1..Len(U) :
                        /\ PathsOf(U[i].points) = Q[i]
                        /\ U[i].ok <=> i <= k
                    /\ PathsOf(RunPoints(r)) = Flatten(SubSeq(Q, 1, k))

\* A run failed in the upsert of its second directory: the first directory
\* is indexed, and os.walk had more qualifying directories to yield.
C10_Witness ==
    \E r \in 1..Len(runs) :
        /\ runs[r].outcome = "SemanticImageSearchException"
        /\ Len(EmbedsOf(r)) = 2 /\ Len(UpsertsOf(r)) = 2
        /\ ~UpsertsOf(r)[2].ok
        /\ Len(WalkBatches(runs[r].root_folder)) > 2
        /\ RunPoints(r) # << >>
        /\ runs[r].before > 0

\* C11: in every run the embedding calls are one per directory that holds a
\* qualifying file, in the order of the walk, each for all the qualifying
\* files of its directory; the upsert calls are one per embedded directory,
\* each holding all the points of that directory with the vectors of that
\* embedding call; the embedding call of a directory is made only once the
\* upsert of the directory before it is acknowledged; a run that returns
\* has made both calls for every such directory.
C11_OneBatchPerDirectory ==
    \A r \in 1..Len(runs) :
        LET f == runs[r]
            E == EmbedsOf(r)
            U == UpsertsOf(r)
            Q == BatchesOf[f.root_folder]
        IN  /\ Len(E) <= Len(Q)
            /\ \A i \in 1..Len(E) : E[i].paths = Q[i]
            /\ Len(U) <= Len(E)
            /\ Len(E) <= Len(U) + 1
            /\ \A i \in 1..Len(U) :
                /\ PathsOf(U[i].points) = Q[i]
                /\ \A k \in 1..Len(U[i].points) :
                        U[i].points[k].vector = EmbedImage(Q[i][k])
                /\ E[i].ok
                /\ i < Len(E) => U[i].ok
            /\ f.outcome = "return" =>
                /\ Len(E) = Len(Q)
                /\ Len(U) = Len(Q)
                /\ \A i \in 1..Len(U) : U[i].ok
                /\ PathsOf(RunPoints(r)) = Flatten(Q)

\* A run over a tree with three qualifying directories, one of them with two
\* qualifying files, has returned; the collection was not empty before it.
C11_Witness ==
    \E r \in 1..Len(runs) :
        /\ runs[r].outcome = "return"
        /\ runs[r].before > 0
        /\ Len(WalkBatches(runs[r].root_folder)) >= 3
        /\ \E i \in 1..Len(UpsertsOf(r)) : Len(UpsertsOf(r)[i].points) >= 2
        /\ Len(EmbedsOf(r)) = Len(UpsertsOf(r))

\* The directories of the tree under root that hold no qualifying file.
EmptyDirs(root) ==
    {d \in TreeDirs(root) :
        \A i \in 1..Len(FileSystem[d].files) : ~ImageFile(FileSystem[d].files[i])}

EmptyDirsOf == [root \in RootFolders |-> EmptyDirs(root)]

\* C12: no embedding call and no upsert call is made for a directory
\* without qualifying files: every call carries at least one file, and
\* every file it carries lies in a directory that holds qualifying files; a
\* run over a tree without any qualifying file makes no embedding call and
\* no upsert call, adds no point and returns without error.
C12_EmptyDirectoriesSkipped ==
    /\ \A i \in 1..Len(embed_calls) :
        LET skipped == EmptyDirsOf[runs[embed_calls[i].run].root_folder]
        IN  /\ embed_calls[i].paths # << >>
            /\ \A k \in 1..Len(embed_calls[i].paths) :
                    DirOf(embed_calls[i].paths[k]) \notin skipped
    /\ \A i \in 1..Len(upsert_calls) :
        LET skipped == EmptyDirsOf[runs[upsert_calls[i].run].root_folder]
        IN  /\ upsert_calls[i].points # << >>
            /\ \A k \in 1..Len(upsert_calls[i].points) :
                    DirOf(upsert_calls[i].points[k].payload.path) \notin skipped
    /\ \A r \in 1..Len(runs) :
        ImagesOf[runs[r].root_folder] = {} =>
            /\ EmbedsOf(r) = << >>
            /\ UpsertsOf(r) = << >>
            /\ RunPoints(r) = << >>
            /\ runs[r].outcome \in {"running", "return"}

\* A run over an existing directory without qualifying files has returned,
\* after a run that indexed files and passed over such a directory.
C12_Witness ==
    \E r \in 1..Len(runs) :
        /\ runs[r].outcome = "return"
        /\ Resolve(runs[r].root_folder) \in DOMAIN FileSystem
        /\ TreeImages(runs[r].root_folder) = {}
        /\ r > 1
        /\ runs[r - 1].outcome = "return"
        /\ EmptyDirs(runs[r - 1].root_folder) # {}
        /\ RunPoints(r - 1) # << >>

(***************************************************************************)
(* Properties of index_image.                                              *)
(***************************************************************************)
\* The positions of the collection that hold a point of the given id.
PointsOfId(id) == {i \in 1..Len(points) : points[i].id = id}

\* C13: no two points of the collection have the same id; an index_image
\* call that returned drew an id that no point of the collection had, and
\* left every point the collection had as it was, followed by one new point
\* of that id for the path of the call; two calls for the same path that
\* returned left two points with different ids.
C13_IndexingIsAdditive ==
    /\ \A i, j \in 1..Len(points) : points[i].id = points[j].id => i = j
    /\ \A c \in 1..Len(image_calls) :
        LET f == image_calls[c]
            n == Len(f.before)
        IN  f.outcome = "return" =>
                /\ \A i \in 1..n : f.before[i].id # f.id
                /\ Len(points) > n
                /\ SubSeq(points, 1, n) = f.before
                /\ points[n + 1].id = f.id
                /\ points[n + 1].payload.path = f.image_path
    /\ \A c1, c2 \in 1..Len(image_calls) :
        LET f1 == image_calls[c1]
            f2 == image_calls[c2]
        IN  (c1 < c2 /\ f1.outcome = "return" /\ f2.outcome = "return"
                /\ f1.image_path = f2.image_path) =>
                /\ f1.id # f2.id
                /\ \E i \in PointsOfId(f1.id) : \E j \in PointsOfId(f2.id) :
                        /\ i # j
                        /\ points[i].payload.path = f1.image_path
                        /\ points[j].payload.path = f1.image_path

\* Two index_image calls for one path have returned, and index_folder had
\* indexed the file at that path before them.
C13_Witness ==
    \E c1, c2 \in 1..Len(image_calls) :
        /\ c1 < c2
        /\ image_calls[c1].outcome = "return"
        /\ image_calls[c2].outcome = "return"
        /\ image_calls[c1].image_path = image_calls[c2].image_path
        /\ \E i \in 1..Len(image_calls[c1].before) :
                image_calls[c1].before[i].payload.path = image_calls[c1].image_path
        /\ Cardinality({i \in 1..Len(points) :
                points[i].payload.path = image_calls[c1].image_path}) = 3

\* C14: in every step of an index_image call, the call ends with
\* SemanticImageSearchException (IndexingFailure) exactly when its embedding
\* call or its upsert raised, and the collection is then what it was when
\* the call started, as it is while the call is in progress; when the call
\* returns, one embedding call and one upsert were made without error and
\* the collection is what it was followed by the new point.
C14_AllOrNothing ==
    [][ \A c \in 1..Len(image_calls) :
            image_calls[c].outcome = "running" =>
                LET g == image_calls'[c]
                IN  /\ g.outcome \in {"running", "return", "SemanticImageSearchException"}
                    /\ g.outcome = "SemanticImageSearchException" <=> g.error # "none"
                    /\ g.outcome # "return" => points' = g.before
                    /\ g.outcome = "return" =>
                        /\ g.embeds = 1 /\ g.upserts = 1
                        /\ Len(points') = Len(g.before) + 1
                        /\ SubSeq(points', 1, Len(g.before)) = g.before
                        /\ points'[Len(points')].id = g.id
                        /\ points'[Len(points')].vector = EmbedImage(g.image_path)
                        /\ points'[Len(points')].payload.path = g.image_path
                        /\ points'[Len(points')].payload.category = g.category ]_vars

\* An index_image call on a collection that held points has just failed in
\* its upsert, after one that failed in its embedding call.
C14_Witness ==
    \E c \in 1..Len(image_calls) :
        /\ c = Len(image_calls)
        /\ c > 1
        /\ image_calls[c - 1].error = "embed"
        /\ image_calls[c].error = "upsert"
        /\ image_calls[c].outcome = "SemanticImageSearchException"
        /\ image_calls[c].before # << >>
        /\ points = image_calls[c].before

(***************************************************************************)
(* Properties of clear_collection and of the searches.                     *)
(***************************************************************************)
\* The search of the request has returned its results to the endpoint.
Searched(f) == f.pc \in {"respond", "save", "done"} /\ f.searches = 1 /\ f.embeds = 1
                    /\ f.response.status_code # 500

\* The request was received after clear_collection call n had ended, and no
\* index_folder run and no index_image call was started in between.
RightAfterClear(f, n) ==
    /\ n = f.started.clears
    /\ n > 0
    /\ clears[n].started.runs = f.started.runs
    /\ clears[n].started.image_calls = f.started.image_calls

\* C15: a text or image search received right after a clear_collection call
\* that returned, with no indexing in between, gets no result from the store
\* and answers 200 with an empty result list, whatever the collection held
\* before the call; a clear_collection call ends with
\* SemanticImageSearchException (ClearFailure) exactly when the delete of the
\* store raised.
C15_SearchAfterClearIsEmpty ==
    /\ \A n \in 1..Len(clears) :
        /\ clears[n].outcome \in {"return", "SemanticImageSearchException"}
        /\ clears[n].outcome = "SemanticImageSearchException" <=> clears[n].error # "none"
    /\ \A r \in 1..Len(requests) : \A n \in 1..Len(clears) :
        LET f == requests[r]
        IN  (RightAfterClear(f, n) /\ clears[n].outcome = "return" /\ Searched(f)) =>
                /\ f.results = << >>
                /\ f.pc # "save"
                /\ f.pc = "done" =>
                    /\ f.response.status_code = 200
                    /\ "results" \in f.response.keys
                    /\ f.response.results = << >>

\* A text search without filter has answered, right after a clear_collection
\* call that returned on a collection that held points.
C15_Witness ==
    \E r \in 1..Len(requests) : \E n \in 1..Len(clears) :
        /\ RightAfterClear(requests[r], n)
        /\ clears[n].outcome = "return"
        /\ clears[n].before # << >>
        /\ requests[r].kind = "text"
        /\ requests[r].category = NoCategory
        /\ requests[r].pc = "done"
        /\ requests[r].response.status_code = 200

\* C16 as stated: a text search that is passed a category returns only
\* results of that category, whatever the value passed and whatever the
\* collection holds.
C16_Original ==
    \A r \in 1..Len(requests) :
        LET f == requests[r]
        IN  (f.kind = "text" /\ f.category # NoCategory
                /\ f.response.status_code = 200) =>
                \A i \in 1..Len(f.response.results) :
                    f.response.results[i].category = f.category

\* C17: a text search with k = topK that answers 200 reports at most topK
\* results, in non-increasing order of score, and they are the results the
\* store returned, in the order it returned them.
C17_TopKInStoreOrder ==
    \A r \in 1..Len(requests) :
        LET f == requests[r]
            R == f.response.results
        IN  (f.kind = "text" /\ f.response.status_code = 200) =>
                /\ Len(R) <= f.k
                /\ \A i \in 1..(Len(R) - 1) : R[i].score >= R[i + 1].score
                /\ Len(R) = Len(f.results)
                /\ \A i \in 1..Len(R) :
                    /\ R[i].path = f.results[i].payload.path
                    /\ R[i].score = f.results[i].score
                /\ \A i \in 1..Len(f.results) :
                    \E j \in 1..Len(f.searched) :
                        /\ f.searched[j].id = f.results[i].id
                        /\ f.results[i].score = Score(f.qv, f.searched[j].vector)

\* A text search with k = 5 has reported five results that are not all of
\* one score, the first of them not the first point of the collection.
C17_Witness ==
    \E r \in 1..Len(requests) :
        LET f == requests[r]
            R == f.response.results
        IN  /\ f.kind = "text"
            /\ f.response.status_code = 200
            /\ f.k = 5
            /\ Len(R) = 5
            /\ R[1].score > R[5].score
            /\ R[1].path # f.searched[1].payload.path

(***************************************************************************)
(* Properties of the calls test.py makes.                                  *)
(***************************************************************************)
\* Call c is the first call on its translator for its normalized query.
FirstOfItsQuery(c) ==
    /\ Normalized(calls[c])
    /\ \A b \in 1..(c - 1) :
        ~(/\ Normalized(calls[b])
          /\ calls[b].self = calls[c].self
          /\ calls[b].normalized_query = calls[c].normalized_query)

\* Call c2 follows call c1, which returned, on the same translator with the
\* same raw query.
SecondOf(c1, c2) ==
    /\ c1 < c2
    /\ calls[c1].pc = "done" /\ calls[c1].outcome = "return"
    /\ calls[c2].pc = "done"
    /\ Normalized(calls[c2])
    /\ calls[c2].self = calls[c1].self
    /\ calls[c2].user_query = calls[c1].user_query

C19_TranslationFirst ==
    \A r \in 1..Len(requests) :
        LET f == requests[r]
        IN  f.kind = "text" =>
                LET call == calls[f.call]
                IN  /\ (f.embeds > 0 \/ f.searches > 0 \/ f.saves > 0
                            \/ f.response.status_code = 200) =>
                        /\ call.pc = "done"
                        /\ call.outcome = "return"
                        /\ f.translated = call.ret
                    /\ (call.pc = "done" /\ call.outcome # "return") =>
                        /\ call.outcome \in {"ValueError", "SemanticImageSearchException"}
                        /\ f.embeds = 0 /\ f.searches = 0 /\ f.saves = 0
                        /\ f.pc \in {"translate", "done"}
                        /\ f.pc = "done" =>
                            /\ f.response.status_code = 500
                            /\ f.response.type = call.outcome
                            /\ "error" \in f.response.keys
                            /\ "results" \notin f.response.keys
                            /\ f.response.saved_folder = None

\* A request that asked for its results to be saved has been answered 500
\* after the provider call of its translation failed, on a collection that
\* holds points.
C19_Witness ==
    \E r \in 1..Len(requests) :
        /\ requests[r].kind = "text"
        /\ requests[r].pc = "done"
        /\ requests[r].save_results
        /\ requests[r].response.status_code = 500
        /\ calls[requests[r].call].answer = "error"
        /\ calls[requests[r].call].llm = 1
        /\ points # << >>

(***************************************************************************)
(* The cache of a translator.                                              *)
(***************************************************************************)
\* The calls on translator t whose provider call returned.
Answered(t) ==
    {c \in 1..Len(calls) : calls[c].self = t /\ calls[c].answer = "ok"}

\* v is the text content without its surrounding white space.
IsStrippedFormOf(v, content) ==
    IF Blank(content) THEN v = ""
    ELSE /\ Len(v) = LastInk(content) - FirstInk(content) + 1
         /\ \A i \in 1..Len(v) : CharAt(v, i) = CharAt(content, FirstInk(content) + i - 1)

\* C20: in every state, every key of every _query_cache is at most 200
\* characters long, without upper-case letter, without white space at its
\* start (nor at its end, unless it was cut at 200 characters), holds a
\* conversational trigger, and is the normalized form of the query of a call
\* on that translator whose provider call, made with the prompt of that key,
\* returned; the value under the key is the stripped text that provider
\* call returned; a cache has no more entries than its translator has calls
\* whose provider call returned.
C20_CacheInvariant ==
    \A t \in 1..Len(translators) :
        /\ \A k \in DOMAIN translators[t] :
            /\ Len(k) > 0 /\ Len(k) <= MAX_QUERY_LENGTH
            /\ \A i \in 1..Len(k) : CharAt(k, i) \notin UpperChars
            /\ CharAt(k, 1) \notin WHITESPACE
            /\ Len(k) < MAX_QUERY_LENGTH => CharAt(k, Len(k)) \notin WHITESPACE
            /\ HasTrigger(k)
            /\ \E c \in Answered(t) :
                /\ IsNormalFormOf(k, calls[c].user_query.value)
                /\ calls[c].prompt = PROMPT_HEAD \o k \o PROMPT_TAIL
                /\ calls[c].llm = 1
                /\ translators[t][k] = calls[c].final_caption
                /\ \E content \in LLM_CONTENTS :
                        IsStrippedFormOf(translators[t][k], content)
        /\ Cardinality(DOMAIN translators[t]) <= Cardinality(Answered(t))

\* A cache holds two entries, one of them under a key of 200 characters that
\* ends in a space.
C20_Witness ==
    \E t \in 1..Len(translators) :
        /\ Cardinality(DOMAIN translators[t]) = 2
        /\ \E k \in DOMAIN translators[t] :
            Len(k) = MAX_QUERY_LENGTH /\ CharAt(k, Len(k)) = " "

(***************************************************************************)
(* Concurrent image searches and the staged file.                          *)
(***************************************************************************)
\* The image searches that have read the staged file for their embedding.
Embedded == {r \in 1..Len(uploads) : uploads[r].embeds = 1}

\* C21 as stated: under any interleaving of concurrent image search
\* requests, two uploads of the same filename included, the staged file
\* read for the embedding of a request holds the bytes this request
\* uploaded, and the request searches with the vector of these bytes.
C21_Original ==
    \A r \in Embedded :
        /\ uploads[r].read = uploads[r].file
        /\ uploads[r].searches = 1 => uploads[r].qv = EmbedImageFile(uploads[r].file)

\* The part of C21 that holds: a request whose filename no other request
\* of the behaviour carries reads its own bytes.
C21_OwnNameOwnBytes ==
    \A r \in Embedded :
        (\A o \in 1..Len(uploads) :
            o # r => uploads[o].filename # uploads[r].filename) =>
            /\ uploads[r].read = uploads[r].file
            /\ uploads[r].searches = 1 =>
                    uploads[r].qv = EmbedImageFile(uploads[r].file)

\* Two concurrent requests of different names have both searched.
C21_OwnNameWitness ==
    /\ Len(uploads) >= 2
    /\ uploads[1].filename # uploads[2].filename
    /\ uploads[1].searches = 1 /\ uploads[2].searches = 1
    /\ uploads[2].pc = "done" /\ uploads[1].pc = "respond"


=============================================================================
